---- MODULE Spec2Model ----
(***************************************************************************)
(* A model of process_data.py: the metrics derivation                      *)
(* (process_capacity_factors), the registry loader (load_reactors_master), *)
(* the name reconciliation (merge_data), the fleet aggregation             *)
(* (calculate_fleet_statistics) and their sequencing in main.              *)
(*                                                                         *)
(* Conventions.                                                            *)
(*  - A Python str is a sequence of one-character strings.                 *)
(*  - A power value / capacity factor is a fixed-point number counted in   *)
(*    tenths of a percent (94.9 is 949); Pct(n) is n percent.              *)
(*  - NaN is the float NaN pandas uses for a missing value and None is     *)
(*    Python's None in a slot that otherwise holds a number: two integers  *)
(*    outside the range of every number of the model.  NoneObj is None in  *)
(*    a slot that otherwise holds a str or a reference, which are wrapped  *)
(*    in a one-field record.                                               *)
(*  - A date is a day number; timedelta(days=n) is n.                      *)
(*  - A dict is a sequence of [key, value] records with distinct keys, in  *)
(*    insertion order.                                                     *)
(***************************************************************************)
EXTENDS Integers, Sequences, FiniteSets, TLC

NaN == -99999
None == -99998
NoneObj == [none |-> TRUE]
\* a CSV cell whose text is neither a date nor a number
Malformed == -99997

\* a reference to the dict stored under key k of cf_metrics
Ref(k) == [ref |-> k]

Pct(n) == n * 10

\* the sequence f with its elements computed once
Eager(f) == SubSeq(f, 1, Len(f))

Min(S) == CHOOSE m \in S : \A o \in S : m <= o
Max(S) == CHOOSE m \in S : \A o \in S : m >= o

(***************************************************************************)
(* Characters and the str methods / regular expressions the code uses.     *)
(***************************************************************************)
LowerLetters ==
    {"a","b","c","d","e","f","g","h","i","j","k","l","m",
     "n","o","p","q","r","s","t","u","v","w","x","y","z"}

LowerOf ==
    ("A" :> "a") @@ ("B" :> "b") @@ ("C" :> "c") @@ ("D" :> "d") @@
    ("E" :> "e") @@ ("F" :> "f") @@ ("G" :> "g") @@ ("H" :> "h") @@
    ("I" :> "i") @@ ("J" :> "j") @@ ("K" :> "k") @@ ("L" :> "l") @@
    ("M" :> "m") @@ ("N" :> "n") @@ ("O" :> "o") @@ ("P" :> "p") @@
    ("Q" :> "q") @@ ("R" :> "r") @@ ("S" :> "s") @@ ("T" :> "t") @@
    ("U" :> "u") @@ ("V" :> "v") @@ ("W" :> "w") @@ ("X" :> "x") @@
    ("Y" :> "y") @@ ("Z" :> "z")

\* str.lower() on one character
LowerChar(c) == IF c \in DOMAIN LowerOf THEN LowerOf[c] ELSE c

\* str.lower()
Lower(s) == Eager([i \in 1..Len(s) |-> LowerChar(s[i])])

\* regex \s, and the characters str.split() / str.strip() treat as blank
IsSpace(c) == c \in {" ", "\t", "\n", "\r", "\f"}

\* regex \d
IsDigit(c) == c \in {"0","1","2","3","4","5","6","7","8","9"}

\* regex \w
WordChars ==
    LowerLetters \cup DOMAIN LowerOf
    \cup {"0","1","2","3","4","5","6","7","8","9","_"}

IsWordChar(c) == c \in WordChars

\* regex \s* (greedy) from position i: the position after the blanks
RECURSIVE SkipSpaces(_, _)
SkipSpaces(s, i) ==
    IF i <= Len(s) /\ IsSpace(s[i]) THEN SkipSpaces(s, i + 1) ELSE i

\* regex \d* (greedy) from position i: the position after the digits
RECURSIVE SkipDigits(_, _)
SkipDigits(s, i) ==
    IF i <= Len(s) /\ IsDigit(s[i]) THEN SkipDigits(s, i + 1) ELSE i

\* the literal lit matches at position i.  A pattern under re.IGNORECASE is
\* matched as its lower-case literal against the lower-cased string.
LitAt(s, i, lit) ==
    /\ i >= 1
    /\ i + Len(lit) - 1 <= Len(s)
    /\ \A k \in 1..Len(lit) : s[i + k - 1] = lit[k]

\* regex (word\s*)? from position i: the position after it
AfterWord(s, i, word) ==
    IF LitAt(s, i, word) THEN SkipSpaces(s, i + Len(word)) ELSE i

\* regex ,? from position i: the position after it
AfterComma(s, i) == IF i <= Len(s) /\ s[i] = "," THEN i + 1 ELSE i

\* regex $ (no re.MULTILINE): the end of the string, or just before a final
\* line break
AtEnd(s, j) == j = Len(s) + 1 \/ (j = Len(s) /\ s[j] = "\n")

\* str.strip()
Strip(s) ==
    LET keep == {i \in 1..Len(s) : ~IsSpace(s[i])}
    IN  IF keep = {} THEN << >> ELSE SubSeq(s, Min(keep), Max(keep))

\* s.split(): the sequence of blank-separated words
RECURSIVE Split(_, _)
Split(s, i) ==
    LET a == SkipSpaces(s, i)
        RECURSIVE WordEnd(_)
        WordEnd(j) == IF j <= Len(s) /\ ~IsSpace(s[j]) THEN WordEnd(j + 1) ELSE j
    IN  IF a > Len(s) THEN << >>
        ELSE <<SubSeq(s, a, WordEnd(a) - 1)>> \o Split(s, WordEnd(a))

\* ' '.join(words)
RECURSIVE Join(_)
Join(words) ==
    IF words = << >> THEN << >>
    ELSE IF Len(words) = 1 THEN words[1]
    ELSE words[1] \o <<" ">> \o Join(Tail(words))

\* Python's `sub in s` for two str (the empty str is in every str)
StrIn(sub, s) ==
    \E i \in 1..(Len(s) - Len(sub) + 1) : LitAt(s, i, sub)

(***************************************************************************)
(* get_plant_base_name and the unit-number search of merge_data.           *)
(***************************************************************************)
W_Unit == <<"U","n","i","t">>
W_unit == <<"u","n","i","t">>

\* A match of a pattern that ends in $ and whose last character is no line
\* break ends at the end of the string, or before the line break the string
\* ends with: that line break is what re.sub leaves of the tail.
FinalNewline(s) ==
    IF Len(s) > 0 /\ s[Len(s)] = "\n" THEN <<"\n">> ELSE << >>

\* re.sub(pattern$, '', s) for the match starts found
CutFrom(s, starts) ==
    IF starts = {} THEN s
    ELSE SubSeq(s, 1, Min(starts) - 1) \o FinalNewline(s)

\* regex \d+$ from position c
DigitsToEnd(s, c) == SkipDigits(s, c) > c /\ AtEnd(s, SkipDigits(s, c))

\* A match of  ,?\s*(Unit\s*)?\d+$  starts at i of the lower-cased string.
\* Every part is forced: a shorter alternative of a greedy part leaves a
\* character the next part cannot match.
UnitSuffixAt(low, i) ==
    DigitsToEnd(low, AfterWord(low, SkipSpaces(low, AfterComma(low, i)), W_unit))

UnitSuffixStarts(low) == {i \in 1..Len(low) : UnitSuffixAt(low, i)}

\* re.sub(r',?\s*(Unit\s*)?\d+$', '', full_name, flags=re.IGNORECASE).strip()
get_plant_base_name(full_name) ==
    Strip(CutFrom(full_name, UnitSuffixStarts(Lower(full_name))))

\* group(1) of the match that starts at the least of starts, or None
DigitsFrom(name, starts) ==
    IF starts = {} THEN NoneObj
    ELSE [group1 |-> SubSeq(name, Min(starts),
                            SkipDigits(name, Min(starts)) - 1)]

\* re.search(r'(\d+)$', name), then group(1) or None
UnitNumber(name) ==
    DigitsFrom(name, {i \in 1..Len(name) : DigitsToEnd(name, i)})

(***************************************************************************)
(* normalize_name_for_matching                                             *)
(***************************************************************************)
W_nuclear == <<"n","u","c","l","e","a","r">>
W_power == <<"p","o","w","e","r">>
W_plant == <<"p","l","a","n","t">>
W_station == <<"s","t","a","t","i","o","n">>
W_generating_station ==
    <<"g","e","n","e","r","a","t","i","n","g"," ","s","t","a","t","i","o","n">>
W_One == <<"O","n","e">>
W_Two == <<"T","w","o">>
W_Three == <<"T","h","r","e","e">>

\* regex (Plant|Station|Generating Station) at position c: the position
\* after it, or 0
KeywordEnd(low, c) ==
    IF LitAt(low, c, W_plant) THEN c + 5
    ELSE IF LitAt(low, c, W_station) THEN c + 7
    ELSE IF LitAt(low, c, W_generating_station) THEN c + 18
    ELSE 0

\* regex .*$ from position k (0: the keyword did not match): "." matches no
\* line break, so the rest of the string holds none, except a final one that
\* $ may stand before
RestOfLineToEnd(low, k) ==
    k > 0 /\ \A j \in k..Len(low) : low[j] = "\n" => j = Len(low)

\* A match of  \s*(Nuclear\s*)?(Power\s*)?(Plant|Station|Generating Station).*$
\* starts at i of the lower-cased string.
SuffixAt(low, i) ==
    RestOfLineToEnd(low,
        KeywordEnd(low,
            AfterWord(low, AfterWord(low, SkipSpaces(low, i), W_nuclear),
                      W_power)))

SuffixStarts(low) == {i \in 1..Len(low) : SuffixAt(low, i)}

\* re.sub(r'\s*(Nuclear\s*)?(Power\s*)?(Plant|Station|Generating Station).*$',
\*        '', name, flags=re.IGNORECASE)
RemoveSuffixes(name) == CutFrom(name, SuffixStarts(Lower(name)))

\* A match of  ,?\s*Unit\s*  (case-sensitive) starts at i
UnitTokenAt(s, i) == LitAt(s, SkipSpaces(s, AfterComma(s, i)), W_Unit)

\* the position after that match
UnitTokenEnd(s, i) == SkipSpaces(s, SkipSpaces(s, AfterComma(s, i)) + 4)

\* re.sub(r',?\s*Unit\s*', ' ', name), scanning from position i
RECURSIVE RemoveUnit(_, _)
RemoveUnit(name, i) ==
    IF i > Len(name) THEN << >>
    ELSE IF UnitTokenAt(name, i)
         THEN <<" ">> \o RemoveUnit(name, UnitTokenEnd(name, i))
         ELSE <<name[i]>> \o RemoveUnit(name, i + 1)

\* regex \b at position i (between s[i-1] and s[i])
WordBoundary(s, i) ==
    (i > 1 /\ IsWordChar(s[i - 1])) # (i <= Len(s) /\ IsWordChar(s[i]))

\* re.sub(r'\bword\b', digit, name), scanning from position i
RECURSIVE ReplaceWord(_, _, _, _)
ReplaceWord(name, word, digit, i) ==
    IF i > Len(name) THEN << >>
    ELSE IF /\ LitAt(name, i, word)
            /\ WordBoundary(name, i)
            /\ WordBoundary(name, i + Len(word))
         THEN <<digit>> \o ReplaceWord(name, word, digit, i + Len(word))
         ELSE <<name[i]>> \o ReplaceWord(name, word, digit, i + 1)

\* the three number words, One first
ReplaceNumberWords(name) ==
    ReplaceWord(ReplaceWord(ReplaceWord(name, W_One, "1", 1), W_Two, "2", 1),
                W_Three, "3", 1)

normalize_name_for_matching(name) ==
    Strip(Join(Split(ReplaceNumberWords(RemoveUnit(RemoveSuffixes(name), 1)), 1)))

(***************************************************************************)
(* dict: a sequence of [key, value] records, distinct keys, insertion order *)
(***************************************************************************)
DictKeys(d) == [i \in 1..Len(d) |-> d[i].key]

HasKey(d, k) == \E i \in 1..Len(d) : d[i].key = k

DictGet(d, k) == d[CHOOSE i \in 1..Len(d) : d[i].key = k].value

\* d.setdefault(k, v): a present key keeps its value: the variant the
\* overwriting of C30 has to tell from DictSet
DictSetDefault(d, k, v) ==
    IF HasKey(d, k) THEN d ELSE Append(d, [key |-> k, value |-> v])

\* d[k] = v: a present key keeps its place, a new key goes last
DictSet(d, k, v) ==
    IF HasKey(d, k)
    THEN [i \in 1..Len(d) |-> IF d[i].key = k THEN [key |-> k, value |-> v] ELSE d[i]]
    ELSE Append(d, [key |-> k, value |-> v])

(***************************************************************************)
(* Numbers: float comparisons with NaN, mean() and round(x, 1).            *)
(***************************************************************************)
IsNumber(x) == x # NaN /\ x # None

\* x >= y, x > y, x < y on floats: every comparison with NaN is False
Ge(x, y) == x # NaN /\ x >= y
Gt(x, y) == x # NaN /\ x > y
Lt(x, y) == x # NaN /\ x < y

\* the sum of f[lo..hi], by halves
RECURSIVE SumRange(_, _, _)
SumRange(f, lo, hi) ==
    IF lo > hi THEN 0
    ELSE IF lo = hi THEN f[lo]
    ELSE LET mid == (lo + hi) \div 2
         IN  SumRange(f, lo, mid) + SumRange(f, mid + 1, hi)

Sum(f) == SumRange(f, 1, Len(f))

\* round(num / den, 1) of a value counted in tenths: the nearest tenth, an
\* exact half going to the even neighbour
RoundDiv(num, den) ==
    LET q == num \div den
        r == num % den
    IN  IF 2 * r < den THEN q
        ELSE IF 2 * r > den THEN q + 1
        ELSE IF q % 2 = 0 THEN q ELSE q + 1

\* every Power value of a frame, a NaN counted as 0: the variant the
\* capacity-factor property of C12 has to tell from PowerValues
PowerValuesNaNAsZero(frame) ==
    [i \in 1..Len(frame) |->
        IF frame[i].Power = NaN THEN 0 ELSE frame[i].Power]

\* the Power values of a frame that are not NaN (mean() skips NaN)
PowerValues(frame) ==
    LET rows == SelectSeq(frame, LAMBDA r : r.Power # NaN)
    IN  [i \in 1..Len(rows) |-> rows[i].Power]

\* frame['Power'].mean() as the exact fraction num / den; den = 0 stands for
\* the NaN that the mean of no value is
MeanPower(frame) ==
    LET v == PowerValues(frame)
    IN  [num |-> Sum(v), den |-> Len(v)]

\* round(cf, 1) if pd.notna(cf) else None
RoundedOrNone(mean) ==
    IF mean.den = 0 THEN None ELSE RoundDiv(mean.num, mean.den)

(***************************************************************************)
(* process_capacity_factors.  A row of the DataFrame is                    *)
(* [Index, Unit, Date, Power]; Index is the row label.                     *)
(***************************************************************************)

\* The first day of each calendar month, counted from 2023-01-01 (day 0)
MonthStarts ==
    <<0, 31, 59, 90, 120, 151, 181, 212, 243, 273, 304, 334,
      365, 396, 425, 456, 486, 517, 547, 578, 609, 639, 670, 700,
      731, 762, 790, 821, 851, 882, 912, 943, 974, 1004, 1035, 1065,
      1096, 1127, 1155, 1186, 1216, 1247, 1277, 1308, 1339, 1369, 1400, 1430>>

\* the calendar month (counted from January 2023 = 1) a date falls in
MonthOf(date) ==
    Cardinality({m \in 1..Len(MonthStarts) : MonthStarts[m] <= date})

\* a set of integers as the ascending sequence of its members
Ascending(S) ==
    [k \in 1..Cardinality(S) |->
        CHOOSE x \in S : Cardinality({y \in S : y <= x}) = k]

\* df['Date'].max()
MaxDate(df) == Max({df[i].Date : i \in 1..Len(df)})

\* df['Unit'].unique(): the distinct names, in order of first appearance
UniqueUnits(df) ==
    LET first == {i \in 1..Len(df) :
                     \A j \in 1..(i - 1) : df[j].Unit # df[i].Unit}
        order == Ascending(first)
    IN  [k \in 1..Len(order) |-> df[order[k]].Unit]

\* the frame with the rows of every unit left in: the variant the
\* independence of C26 has to tell from RowsOfUnit
RowsOfAllUnits(df, unit_name) == df

\* df[df['Unit'] == unit_name]
RowsOfUnit(df, unit_name) == SelectSeq(df, LAMBDA r : r.Unit = unit_name)

\* The rows that share their unit and date with another row.
TiedRows(df) ==
    {i \in 1..Len(df) :
        \E j \in 1..Len(df) :
            j # i /\ df[j].Date = df[i].Date /\ df[j].Unit = df[i].Unit}

\* sort_values('Date') uses a sort that is not stable: rows of equal date
\* come out in an order the caller does not control.  A tie order ranks the
\* rows; it may permute the rows of one unit that share a date.
TieOrders(df) ==
    LET T == TiedRows(df)
        perms == {g \in [T -> T] :
                     /\ \A a, b \in T : a # b => g[a] # g[b]
                     /\ \A a \in T : /\ df[g[a]].Date = df[a].Date
                                     /\ df[g[a]].Unit = df[a].Unit}
    IN  {[i \in 1..Len(df) |-> IF i \in T THEN g[i] ELSE i] : g \in perms}

\* unit_df.sort_values('Date'), ties in the order rank gives
SortValues(frame, rank) ==
    LET n == Len(frame)
        Before(a, b) ==
            \/ a.Date < b.Date
            \/ a.Date = b.Date /\ rank[a.Index] < rank[b.Index]
        at == Eager([i \in 1..n |->
                  1 + Cardinality({j \in 1..n : Before(frame[j], frame[i])})])
    IN  [k \in 1..n |-> frame[CHOOSE i \in 1..n : at[i] = k]]

\* the power of the unit's most recent row, whatever its date: the variant
\* the anchor property of C11 has to tell from CurrentPower
CurrentPowerLatestRow(unit_df, max_date) ==
    IF Len(unit_df) > 0 THEN unit_df[Len(unit_df)].Power ELSE None

\* latest['Power'].values[0] if len(latest) > 0 else None
CurrentPower(unit_df, max_date) ==
    LET latest == SelectSeq(unit_df, LAMBDA r : r.Date = max_date)
    IN  IF Len(latest) > 0 THEN latest[1].Power ELSE None

\* Status with the boundary values 95 and 50 in the lower bucket: the
\* variant the threshold property of C1 has to tell from Status
StatusLowerBucket(current_power) ==
    IF current_power = None THEN "offline"
    ELSE IF Gt(current_power, Pct(95)) THEN "full_power"
    ELSE IF Gt(current_power, Pct(50)) THEN "reduced_power"
    ELSE IF Gt(current_power, 0) THEN "low_power"
    ELSE "offline"

Status(current_power) ==
    IF current_power = None THEN "offline"
    ELSE IF Ge(current_power, Pct(95)) THEN "full_power"
    ELSE IF Ge(current_power, Pct(50)) THEN "reduced_power"
    ELSE IF Gt(current_power, 0) THEN "low_power"
    ELSE "offline"

\* the rows older than the window instead of the rows in it: the variant
\* the nesting property of C7 has to tell from Since
SinceOlder(unit_df, max_date, days) ==
    SelectSeq(unit_df, LAMBDA r : r.Date <= max_date - days)

\* unit_df[unit_df['Date'] >= max_date - timedelta(days=days)]
Since(unit_df, max_date, days) ==
    SelectSeq(unit_df, LAMBDA r : r.Date >= max_date - days)

\* last_year_df['Power'] < 5
IsOutage(r) == Lt(r.Power, Pct(5))

\* OutageStarts that never counts the first row of the window: the variant
\* the property of C20 has to tell from OutageStarts
OutageStartsAfterFirst(last_year_df) ==
    Cardinality({i \in 2..Len(last_year_df) :
                    /\ IsOutage(last_year_df[i])
                    /\ ~IsOutage(last_year_df[i - 1])})

\* OutageStarts that counts the end of an outage as well as its start: the
\* variant the bound of C28 has to tell from OutageStarts
OutageStartsAndEnds(last_year_df) ==
    Cardinality({i \in 1..Len(last_year_df) :
                    IsOutage(last_year_df[i])
                        # (i > 1 /\ IsOutage(last_year_df[i - 1]))})

\* (is_outage & ~is_outage.shift(1).fillna(False)).sum()
OutageStarts(last_year_df) ==
    Cardinality({i \in 1..Len(last_year_df) :
                    /\ IsOutage(last_year_df[i])
                    /\ ~(i > 1 /\ IsOutage(last_year_df[i - 1]))})

\* last_year_df['is_outage'].sum()
OutageDays(last_year_df) ==
    Cardinality({i \in 1..Len(last_year_df) : IsOutage(last_year_df[i])})

\* the days since the earliest outage row of the window, not the latest:
\* the variant the property of C21 has to tell from DaysSinceOutage
DaysSinceFirstOutage(last_year_df, max_date) ==
    LET recent_outages == SelectSeq(last_year_df, IsOutage)
    IN  IF Len(recent_outages) > 0
        THEN max_date - Min({recent_outages[i].Date :
                                i \in 1..Len(recent_outages)})
        ELSE 365

\* DaysSinceOutage with 0 where the code has the sentinel 365: the variant
\* the property of C9 has to tell from DaysSinceOutage
DaysSinceOutageZero(last_year_df, max_date) ==
    LET recent_outages == SelectSeq(last_year_df, IsOutage)
    IN  IF Len(recent_outages) > 0
        THEN max_date - Max({recent_outages[i].Date :
                                i \in 1..Len(recent_outages)})
        ELSE 0

DaysSinceOutage(last_year_df, max_date) ==
    LET recent_outages == SelectSeq(last_year_df, IsOutage)
    IN  IF Len(recent_outages) > 0
        THEN max_date - Max({recent_outages[i].Date :
                                i \in 1..Len(recent_outages)})
        ELSE 365

\* the number of rows at high power, consecutive or not: the variant the
\* property of C10 has to tell from LongestRun
HighPowerRows(unit_df) ==
    Cardinality({i \in 1..Len(unit_df) : Ge(unit_df[i].Power, Pct(95))})

LongestRun(unit_df) ==
    LET n == Len(unit_df)
        high_power == [i \in 1..n |-> Ge(unit_df[i].Power, Pct(95))]
        \* (~high_power).cumsum()
        run_group == Eager([i \in 1..n |->
                         Cardinality({k \in 1..i : ~high_power[k]})])
        high == {i \in 1..n : high_power[i]}
    IN  IF high # {}
        THEN Max({Cardinality({i \in high : run_group[i] = run_group[h]}) :
                     h \in high})
        ELSE 0

\* MonthlyCf with the most recent month first: the variant the order of C23
\* has to tell from MonthlyCf
MonthlyCfNewestFirst(last_year_df) ==
    LET InMonth(m) == SelectSeq(last_year_df, LAMBDA r : MonthOf(r.Date) = m)
        months == Ascending({MonthOf(last_year_df[i].Date) :
                     i \in {j \in 1..Len(last_year_df) :
                               last_year_df[j].Power # NaN}})
    IN  [k \in 1..Len(months) |->
            RoundedOrNone(MeanPower(InMonth(months[Len(months) + 1 - k])))]

\* resample('ME')['Power'].mean(), then the rounded means that are not NaN
MonthlyCf(last_year_df) ==
    LET InMonth(m) == SelectSeq(last_year_df, LAMBDA r : MonthOf(r.Date) = m)
        months == Ascending({MonthOf(last_year_df[i].Date) :
                     i \in {j \in 1..Len(last_year_df) :
                               last_year_df[j].Power # NaN}})
    IN  [k \in 1..Len(months) |-> RoundedOrNone(MeanPower(InMonth(months[k])))]

\* Trend that takes a difference of exactly 2 for a change: the variant the
\* property of C22 has to tell from Trend
TrendAtLeast(unit_df, max_date, cf_90) ==
    LET prev_90 == SelectSeq(unit_df,
                       LAMBDA r : /\ r.Date >= max_date - 180
                                  /\ r.Date < max_date - 90)
        prev_cf == MeanPower(prev_90)
    IN  IF Len(prev_90) > 0 /\ cf_90 # None
        THEN IF prev_cf.den = 0 THEN "stable"
             ELSE IF cf_90 * prev_cf.den >= prev_cf.num + Pct(2) * prev_cf.den
                  THEN "up"
             ELSE IF cf_90 * prev_cf.den <= prev_cf.num - Pct(2) * prev_cf.den
                  THEN "down"
             ELSE "stable"
        ELSE "stable"

Trend(unit_df, max_date, cf_90) ==
    LET prev_90 == SelectSeq(unit_df,
                       LAMBDA r : /\ r.Date >= max_date - 180
                                  /\ r.Date < max_date - 90)
        prev_cf == MeanPower(prev_90)
    IN  IF Len(prev_90) > 0 /\ cf_90 # None
        THEN IF prev_cf.den = 0 THEN "stable"
             ELSE IF cf_90 * prev_cf.den > prev_cf.num + Pct(2) * prev_cf.den
                  THEN "up"
             ELSE IF cf_90 * prev_cf.den < prev_cf.num - Pct(2) * prev_cf.den
                  THEN "down"
             ELSE "stable"
        ELSE "stable"

\* The body of the loop over the units: unit_df is the sorted frame.
UnitMetrics(unit_df, max_date) ==
    LET current_power == CurrentPower(unit_df, max_date)
        cf_90 == RoundedOrNone(MeanPower(Since(unit_df, max_date, 90)))
        last_year_df == Since(unit_df, max_date, 365)
    IN  [current_power |-> current_power,
         status |-> Status(current_power),
         capacity_factor_30d |->
             RoundedOrNone(MeanPower(Since(unit_df, max_date, 30))),
         capacity_factor_90d |-> cf_90,
         capacity_factor_365d |->
             RoundedOrNone(MeanPower(Since(unit_df, max_date, 365))),
         capacity_factor_lifetime |-> RoundedOrNone(MeanPower(unit_df)),
         trend |-> Trend(unit_df, max_date, cf_90),
         outages_last_year |-> OutageStarts(last_year_df),
         outage_days_last_year |-> OutageDays(last_year_df),
         days_since_outage |-> DaysSinceOutage(last_year_df, max_date),
         longest_run_days |-> LongestRun(unit_df),
         monthly_cf |-> MonthlyCf(last_year_df),
         data_as_of |-> max_date]

\* The sorted frame of every unit, keyed by unit name, in units order.
SortedFrames(df, rank) ==
    LET units == UniqueUnits(df)
    IN  [k \in 1..Len(units) |->
            [key |-> units[k],
             value |-> SortValues(RowsOfUnit(df, units[k]), rank)]]

\* reactor_metrics at the end of the loop
ReactorMetrics(frames, max_date) ==
    [k \in 1..Len(frames) |->
        [key |-> frames[k].key,
         value |-> UnitMetrics(frames[k].value, max_date)]]

(***************************************************************************)
(* load_reactors_master.  A row of the master CSV is                       *)
(* [name, subsequent_renewal, license_renewed, commercial_operation]: the  *)
(* two renewal cells are TRUE when they hold a (non-blank) date, and       *)
(* commercial_operation is a date or None for a blank cell.                *)
(***************************************************************************)
\* LicenseStatus with the first renewal looked at before the subsequent
\* one: the variant the precedence of C19 has to tell from LicenseStatus
LicenseStatusRenewedFirst(row) ==
    LET has_subsequent == row.subsequent_renewal
        has_renewed == row.license_renewed
    IN  IF has_renewed
        THEN [license_status |-> "first_renewal", license_years |-> 60]
        ELSE IF has_subsequent
        THEN [license_status |-> "subsequent_renewal", license_years |-> 80]
        ELSE [license_status |-> "original", license_years |-> 40]

LicenseStatus(row) ==
    LET has_subsequent == row.subsequent_renewal
        has_renewed == row.license_renewed
    IN  IF has_subsequent
        THEN [license_status |-> "subsequent_renewal", license_years |-> 80]
        ELSE IF has_renewed
        THEN [license_status |-> "first_renewal", license_years |-> 60]
        ELSE [license_status |-> "original", license_years |-> 40]

\* (datetime.now() - op_date).days // 365
CurrentAge(row, today) ==
    IF row.commercial_operation # None
    THEN (today - row.commercial_operation) \div 365
    ELSE None

Reactor(row, today) ==
    [name |-> row.name,
     license_status |-> LicenseStatus(row).license_status,
     license_years |-> LicenseStatus(row).license_years,
     current_age |-> CurrentAge(row, today)]

(***************************************************************************)
(* merge_data                                                              *)
(***************************************************************************)
\* create_name_mapping()
name_mapping == <<
    \* "Callaway Plant": "Callaway 1"
    [key |-> <<"C","a","l","l","a","w","a","y"," ","P","l","a","n","t">>,
     value |-> <<"C","a","l","l","a","w","a","y"," ","1">>],
    \* "Cooper Nuclear Station": "Cooper 1"
    [key |-> <<"C","o","o","p","e","r"," ","N","u","c","l","e","a","r"," ","S","t","a","t","i","o","n">>,
     value |-> <<"C","o","o","p","e","r"," ","1">>],
    \* "Davis-Besse Nuclear Power Station, Unit 1": "Davis-Besse"
    [key |-> <<"D","a","v","i","s","-","B","e","s","s","e"," ","N","u","c","l","e","a","r"," ","P","o","w","e","r"," ","S","t","a","t","i","o","n",","," ","U","n","i","t"," ","1">>,
     value |-> <<"D","a","v","i","s","-","B","e","s","s","e">>],
    \* "Donald C. Cook Nuclear Plant, Unit 1": "D.C. Cook 1"
    [key |-> <<"D","o","n","a","l","d"," ","C","."," ","C","o","o","k"," ","N","u","c","l","e","a","r"," ","P","l","a","n","t",","," ","U","n","i","t"," ","1">>,
     value |-> <<"D",".","C","."," ","C","o","o","k"," ","1">>],
    \* "Donald C. Cook Nuclear Plant, Unit 2": "D.C. Cook 2"
    [key |-> <<"D","o","n","a","l","d"," ","C","."," ","C","o","o","k"," ","N","u","c","l","e","a","r"," ","P","l","a","n","t",","," ","U","n","i","t"," ","2">>,
     value |-> <<"D",".","C","."," ","C","o","o","k"," ","2">>],
    \* "James A. FitzPatrick Nuclear Power Plant": "Fitzpatrick 1"
    [key |-> <<"J","a","m","e","s"," ","A","."," ","F","i","t","z","P","a","t","r","i","c","k"," ","N","u","c","l","e","a","r"," ","P","o","w","e","r"," ","P","l","a","n","t">>,
     value |-> <<"F","i","t","z","p","a","t","r","i","c","k"," ","1">>],
    \* "R.E. Ginna Nuclear Power Plant": "Ginna 1"
    [key |-> <<"R",".","E","."," ","G","i","n","n","a"," ","N","u","c","l","e","a","r"," ","P","o","w","e","r"," ","P","l","a","n","t">>,
     value |-> <<"G","i","n","n","a"," ","1">>],
    \* "St. Lucie Plant, Unit 1": "St. Lucie 1"
    [key |-> <<"S","t","."," ","L","u","c","i","e"," ","P","l","a","n","t",","," ","U","n","i","t"," ","1">>,
     value |-> <<"S","t","."," ","L","u","c","i","e"," ","1">>],
    \* "St. Lucie Plant, Unit 2": "St. Lucie 2"
    [key |-> <<"S","t","."," ","L","u","c","i","e"," ","P","l","a","n","t",","," ","U","n","i","t"," ","2">>,
     value |-> <<"S","t","."," ","L","u","c","i","e"," ","2">>],
    \* "Shearon Harris Nuclear Power Plant, Unit 1": "Harris 1"
    [key |-> <<"S","h","e","a","r","o","n"," ","H","a","r","r","i","s"," ","N","u","c","l","e","a","r"," ","P","o","w","e","r"," ","P","l","a","n","t",","," ","U","n","i","t"," ","1">>,
     value |-> <<"H","a","r","r","i","s"," ","1">>],
    \* "Edwin I. Hatch Nuclear Plant, Unit 1": "Hatch 1"
    [key |-> <<"E","d","w","i","n"," ","I","."," ","H","a","t","c","h"," ","N","u","c","l","e","a","r"," ","P","l","a","n","t",","," ","U","n","i","t"," ","1">>,
     value |-> <<"H","a","t","c","h"," ","1">>],
    \* "Edwin I. Hatch Nuclear Plant, Unit 2": "Hatch 2"
    [key |-> <<"E","d","w","i","n"," ","I","."," ","H","a","t","c","h"," ","N","u","c","l","e","a","r"," ","P","l","a","n","t",","," ","U","n","i","t"," ","2">>,
     value |-> <<"H","a","t","c","h"," ","2">>],
    \* "Joseph M. Farley Nuclear Plant, Unit 1": "Farley 1"
    [key |-> <<"J","o","s","e","p","h"," ","M","."," ","F","a","r","l","e","y"," ","N","u","c","l","e","a","r"," ","P","l","a","n","t",","," ","U","n","i","t"," ","1">>,
     value |-> <<"F","a","r","l","e","y"," ","1">>],
    \* "Joseph M. Farley Nuclear Plant, Unit 2": "Farley 2"
    [key |-> <<"J","o","s","e","p","h"," ","M","."," ","F","a","r","l","e","y"," ","N","u","c","l","e","a","r"," ","P","l","a","n","t",","," ","U","n","i","t"," ","2">>,
     value |-> <<"F","a","r","l","e","y"," ","2">>],
    \* "H.B. Robinson Steam Electric Plant, Unit 2": "Robinson 2"
    [key |-> <<"H",".","B","."," ","R","o","b","i","n","s","o","n"," ","S","t","e","a","m"," ","E","l","e","c","t","r","i","c"," ","P","l","a","n","t",","," ","U","n","i","t"," ","2">>,
     value |-> <<"R","o","b","i","n","s","o","n"," ","2">>],
    \* "H. B. Robinson Steam Electric Plant, Unit 2": "Robinson 2"
    [key |-> <<"H","."," ","B","."," ","R","o","b","i","n","s","o","n"," ","S","t","e","a","m"," ","E","l","e","c","t","r","i","c"," ","P","l","a","n","t",","," ","U","n","i","t"," ","2">>,
     value |-> <<"R","o","b","i","n","s","o","n"," ","2">>],
    \* "V.C. Summer Nuclear Station, Unit 1": "Summer 1"
    [key |-> <<"V",".","C","."," ","S","u","m","m","e","r"," ","N","u","c","l","e","a","r"," ","S","t","a","t","i","o","n",","," ","U","n","i","t"," ","1">>,
     value |-> <<"S","u","m","m","e","r"," ","1">>],
    \* "Virgil C. Summer Nuclear Station, Unit 1": "Summer 1"
    [key |-> <<"V","i","r","g","i","l"," ","C","."," ","S","u","m","m","e","r"," ","N","u","c","l","e","a","r"," ","S","t","a","t","i","o","n",","," ","U","n","i","t"," ","1">>,
     value |-> <<"S","u","m","m","e","r"," ","1">>],
    \* "Palisades Nuclear Plant": "Palisades 1"
    [key |-> <<"P","a","l","i","s","a","d","e","s"," ","N","u","c","l","e","a","r"," ","P","l","a","n","t">>,
     value |-> <<"P","a","l","i","s","a","d","e","s"," ","1">>]
    >>

\* cf_normalized after the loop over cf_metrics.keys(), from key i on
RECURSIVE CfNormalized(_, _, _)
CfNormalized(keys, i, acc) ==
    IF i > Len(keys) THEN acc
    ELSE CfNormalized(keys, i + 1,
             DictSet(acc, Lower(normalize_name_for_matching(keys[i])), keys[i]))

\* the condition of the partial-matching loop for one cf_name
PartialMatch(name, cf_name) ==
    LET reactor_base == Lower(get_plant_base_name(name))
        unit_num == UnitNumber(name)
        cf_base == Lower(get_plant_base_name(cf_name))
        cf_unit_num == UnitNumber(cf_name)
        words == Split(reactor_base, 1)
    IN  /\ \/ StrIn(reactor_base, cf_base)
           \/ StrIn(cf_base, reactor_base)
           \/ \E w \in 1..Len(words) :
                 Len(words[w]) > 4 /\ StrIn(words[w], cf_base)
        /\ \/ unit_num = cf_unit_num
           \/ (unit_num = NoneObj /\ cf_unit_num = NoneObj)

\* MergeOne with the alias table consulted last: the variant the alias
\* precedence of C2 has to tell from MergeOne
MergeOneAliasLast(name, cf_metrics_, cf_normalized) ==
    LET keys == DictKeys(cf_metrics_)
        normalized == Lower(normalize_name_for_matching(name))
        partial == {i \in 1..Len(keys) : PartialMatch(name, keys[i])}
        Matched(k) == [performance |-> Ref(k), matched |-> 1, unmatched |-> 0]
    IN  IF HasKey(cf_metrics_, name)
        THEN Matched(name)
        ELSE IF HasKey(cf_normalized, normalized)
        THEN Matched(DictGet(cf_normalized, normalized))
        ELSE IF partial # {}
        THEN Matched(keys[Min(partial)])
        ELSE IF /\ HasKey(name_mapping, name)
                /\ HasKey(cf_metrics_, DictGet(name_mapping, name))
        THEN Matched(DictGet(name_mapping, name))
        ELSE [performance |-> NoneObj, matched |-> 0, unmatched |-> 1]

\* MergeOne with the normalized tier before the exact tier: the variant the
\* tier order of C3 has to tell from MergeOne
MergeOneNormalizedFirst(name, cf_metrics_, cf_normalized) ==
    LET keys == DictKeys(cf_metrics_)
        normalized == Lower(normalize_name_for_matching(name))
        partial == {i \in 1..Len(keys) : PartialMatch(name, keys[i])}
        Matched(k) == [performance |-> Ref(k), matched |-> 1, unmatched |-> 0]
    IN  IF /\ HasKey(name_mapping, name)
           /\ HasKey(cf_metrics_, DictGet(name_mapping, name))
        THEN Matched(DictGet(name_mapping, name))
        ELSE IF HasKey(cf_normalized, normalized)
        THEN Matched(DictGet(cf_normalized, normalized))
        ELSE IF HasKey(cf_metrics_, name)
        THEN Matched(name)
        ELSE IF partial # {}
        THEN Matched(keys[Min(partial)])
        ELSE [performance |-> NoneObj, matched |-> 0, unmatched |-> 1]

\* MergeOne that attaches the first record when no tier matches: the
\* variant the property of C8 has to tell from MergeOne
MergeOneNeverNull(name, cf_metrics_, cf_normalized) ==
    LET keys == DictKeys(cf_metrics_)
        normalized == Lower(normalize_name_for_matching(name))
        partial == {i \in 1..Len(keys) : PartialMatch(name, keys[i])}
        Matched(k) == [performance |-> Ref(k), matched |-> 1, unmatched |-> 0]
    IN  IF /\ HasKey(name_mapping, name)
           /\ HasKey(cf_metrics_, DictGet(name_mapping, name))
        THEN Matched(DictGet(name_mapping, name))
        ELSE IF HasKey(cf_metrics_, name)
        THEN Matched(name)
        ELSE IF HasKey(cf_normalized, normalized)
        THEN Matched(DictGet(cf_normalized, normalized))
        ELSE IF partial # {}
        THEN Matched(keys[Min(partial)])
        ELSE Matched(keys[1])

\* The body of the loop over the reactors: the performance the reactor gets
\* and what its branch adds to the two counters.
MergeOne(name, cf_metrics_, cf_normalized) ==
    LET keys == DictKeys(cf_metrics_)
        normalized == Lower(normalize_name_for_matching(name))
        partial == {i \in 1..Len(keys) : PartialMatch(name, keys[i])}
        Matched(k) == [performance |-> Ref(k), matched |-> 1, unmatched |-> 0]
    IN  IF /\ HasKey(name_mapping, name)
           /\ HasKey(cf_metrics_, DictGet(name_mapping, name))
        THEN Matched(DictGet(name_mapping, name))
        ELSE IF HasKey(cf_metrics_, name)
        THEN Matched(name)
        ELSE IF HasKey(cf_normalized, normalized)
        THEN Matched(DictGet(cf_normalized, normalized))
        ELSE IF partial # {}
        THEN Matched(keys[Min(partial)])
        ELSE [performance |-> NoneObj, matched |-> 0, unmatched |-> 1]

\* A loop that withdraws a record once it is attached, so that no two
\* reactors carry the same one: the variant the sharing of C29 has to tell
\* from MergeAll
RECURSIVE MergeExclusiveFrom(_, _, _)
MergeExclusiveFrom(reactors_, i, left) ==
    IF i > Len(reactors_) THEN << >>
    ELSE LET one == MergeOne(reactors_[i].name, left,
                        CfNormalized(DictKeys(left), 1, << >>))
         IN  <<one>> \o MergeExclusiveFrom(reactors_, i + 1,
                            SelectSeq(left,
                                LAMBDA e : Ref(e.key) # one.performance))

MergeAllExclusive(reactors_, cf_metrics_) ==
    MergeExclusiveFrom(reactors_, 1, cf_metrics_)

\* what the loop of merge_data does to each reactor, in list order
MergeAll(reactors_, cf_metrics_) ==
    LET cf_normalized == CfNormalized(DictKeys(cf_metrics_), 1, << >>)
    IN  [i \in 1..Len(reactors_) |->
            MergeOne(reactors_[i].name, cf_metrics_, cf_normalized)]

\* entries rebuilt with the age left out: the variant the frame property of
\* C18 has to tell from Merged
MergedWithoutAge(reactors_, merge) ==
    [i \in 1..Len(reactors_) |->
        [name |-> reactors_[i].name,
         license_status |-> reactors_[i].license_status,
         license_years |-> reactors_[i].license_years,
         current_age |-> None,
         performance |-> merge[i].performance]]

\* reactors after merge_data: each dict gets the key 'performance'
Merged(reactors_, merge) ==
    [i \in 1..Len(reactors_) |->
        [name |-> reactors_[i].name,
         license_status |-> reactors_[i].license_status,
         license_years |-> reactors_[i].license_years,
         current_age |-> reactors_[i].current_age,
         performance |-> merge[i].performance]]

(***************************************************************************)
(* calculate_fleet_statistics (the capacity, type and region sums are not  *)
(* modelled).                                                              *)
(***************************************************************************)
\* Python truthiness of a number or None
Truthy(x) == x # None /\ x # 0

\* [r['current_age'] for r in reactors if r.get('current_age')]
Ages(reactors_) ==
    LET with == SelectSeq(reactors_, LAMBDA r : Truthy(r.current_age))
    IN  [i \in 1..Len(with) |-> with[i].current_age]

\* round(sum(ages) / len(ages), 1) if ages else 0, in tenths of a year
AverageAge(reactors_) ==
    LET ages == Ages(reactors_)
    IN  IF Len(ages) > 0 THEN RoundDiv(10 * Sum(ages), Len(ages)) ELSE 0

\* [m['capacity_factor_90d'] for m in cf_metrics.values()
\*  if m.get('capacity_factor_90d')]
CfValues(cf_metrics_) ==
    LET with == SelectSeq(cf_metrics_,
                    LAMBDA e : Truthy(e.value.capacity_factor_90d))
    IN  [i \in 1..Len(with) |-> with[i].value.capacity_factor_90d]

\* round(sum(cf_values) / len(cf_values), 1) if cf_values else 0
FleetCf(cf_metrics_) ==
    LET cf_values == CfValues(cf_metrics_)
    IN  IF Len(cf_values) > 0 THEN RoundDiv(Sum(cf_values), Len(cf_values))
        ELSE 0

StatusNames == {"full_power", "reduced_power", "low_power", "offline"}

\* status_counts as a total function (a status no unit has counts 0 here
\* and is no key of the defaultdict)
StatusCounts(cf_metrics_) ==
    [st \in StatusNames |->
        Cardinality({i \in 1..Len(cf_metrics_) : cf_metrics_[i].value.status = st})]

LicenseCount(reactors_, st) ==
    Cardinality({i \in 1..Len(reactors_) : reactors_[i].license_status = st})

FleetStatistics(reactors_, cf_metrics_) ==
    [total_reactors |-> Len(reactors_),
     total_sites |-> Cardinality({get_plant_base_name(reactors_[i].name) :
                                     i \in 1..Len(reactors_)}),
     average_age |-> AverageAge(reactors_),
     license_status |->
         [original |-> LicenseCount(reactors_, "original"),
          first_renewal |-> LicenseCount(reactors_, "first_renewal"),
          subsequent_renewal |-> LicenseCount(reactors_, "subsequent_renewal")],
     fleet_capacity_factor |-> FleetCf(cf_metrics_),
     status_counts |-> StatusCounts(cf_metrics_)]

(***************************************************************************)
(* main: the state, and one action per call.                               *)
(***************************************************************************)
VARIABLES
    master_csv,    \* data/reactors_master.csv: [exists, rows]
    capacity_csv,  \* nrc_reactor_status_unified_fixed.csv: [exists, rows]
    today,         \* datetime.now(), as a date
    pc,            \* the call main is about to make
    reactors,      \* main's reactors
    unit_dfs,      \* process_capacity_factors' sorted unit_df of every unit
    cf_metrics,    \* main's cf_metrics
    matched,       \* merge_data's counters
    unmatched,
    fleet_stats,   \* main's fleet_stats
    outputs        \* the three JSON files, once written

vars == <<master_csv, capacity_csv, today, pc, reactors, unit_dfs, cf_metrics,
          matched, unmatched, fleet_stats, outputs>>

\* pd.read_csv raises for a missing file; a file with the header line alone
\* gives no reactor
\* main that calls merge_data right after load_reactors_master: the variant
\* the stage order of C27 has to tell from LoadReactorsMaster
LoadReactorsMasterThenMerge ==
    /\ pc = "load_reactors_master"
    /\ IF master_csv.exists
       THEN /\ reactors' = [i \in 1..Len(master_csv.rows) |->
                               Reactor(master_csv.rows[i], today)]
            /\ pc' = "merge_data"
       ELSE /\ pc' = "error"
            /\ UNCHANGED reactors
    /\ UNCHANGED <<master_csv, capacity_csv, today, unit_dfs, cf_metrics,
                   matched, unmatched, fleet_stats, outputs>>

LoadReactorsMaster ==
    /\ pc = "load_reactors_master"
    /\ IF master_csv.exists
       THEN /\ reactors' = [i \in 1..Len(master_csv.rows) |->
                               Reactor(master_csv.rows[i], today)]
            /\ pc' = "process_capacity_factors"
       ELSE /\ pc' = "error"
            /\ UNCHANGED reactors
    /\ UNCHANGED <<master_csv, capacity_csv, today, unit_dfs, cf_metrics,
                   matched, unmatched, fleet_stats, outputs>>

\* Every Date cell parses as a date and every Power cell as a number.
Parses(df) ==
    \A i \in 1..Len(df) : df[i].Date # Malformed /\ df[i].Power # Malformed

\* pd.read_csv raises for a missing file, and with no row max_date is NaT,
\* whose strftime raises.  pd.to_datetime raises on a Date cell that is no
\* date; a Power cell that is no number leaves the column as text, and the
\* comparisons and means of the loop raise on it.
ProcessCapacityFactors ==
    /\ pc = "process_capacity_factors"
    /\ IF /\ capacity_csv.exists
          /\ Len(capacity_csv.rows) > 0
          /\ Parses(capacity_csv.rows)
       THEN \E rank \in TieOrders(capacity_csv.rows) :
               /\ unit_dfs' = SortedFrames(capacity_csv.rows, rank)
               /\ cf_metrics' = ReactorMetrics(unit_dfs', MaxDate(capacity_csv.rows))
               /\ pc' = "merge_data"
       ELSE /\ pc' = "error"
            /\ UNCHANGED <<unit_dfs, cf_metrics>>
    /\ UNCHANGED <<master_csv, capacity_csv, today, reactors, matched,
                   unmatched, fleet_stats, outputs>>

MergeData ==
    /\ pc = "merge_data"
    /\ LET merge == MergeAll(reactors, cf_metrics)
       IN  /\ reactors' = Merged(reactors, merge)
           /\ matched' = Sum([i \in 1..Len(merge) |-> merge[i].matched])
           /\ unmatched' = Sum([i \in 1..Len(merge) |-> merge[i].unmatched])
    /\ pc' = "calculate_fleet_statistics"
    /\ UNCHANGED <<master_csv, capacity_csv, today, unit_dfs, cf_metrics,
                   fleet_stats, outputs>>

CalculateFleetStatistics ==
    /\ pc = "calculate_fleet_statistics"
    /\ fleet_stats' = FleetStatistics(reactors, cf_metrics)
    /\ pc' = "save"
    /\ UNCHANGED <<master_csv, capacity_csv, today, reactors, unit_dfs,
                   cf_metrics, matched, unmatched, outputs>>

\* the three json.dump calls at the end of main
SaveOutputs ==
    /\ pc = "save"
    /\ outputs' = [reactors_json |-> reactors,
                   capacity_factors_json |-> cf_metrics,
                   fleet_stats_json |-> fleet_stats]
    /\ pc' = "done"
    /\ UNCHANGED <<master_csv, capacity_csv, today, reactors, unit_dfs,
                   cf_metrics, matched, unmatched, fleet_stats>>

Next ==
    \/ LoadReactorsMaster
    \/ ProcessCapacityFactors
    \/ MergeData
    \/ CalculateFleetStatistics
    \/ SaveOutputs

\* main before its first call
Start ==
    /\ pc = "load_reactors_master"
    /\ reactors = << >>
    /\ unit_dfs = << >>
    /\ cf_metrics = << >>
    /\ matched = 0
    /\ unmatched = 0
    /\ fleet_stats = NoneObj
    /\ outputs = NoneObj

(***************************************************************************)
(* The inputs the specifications draw from.                                *)
(***************************************************************************)
MaxRows == 2      \* rows of the sparse series of a unit
MaxDaily == 3     \* rows of the daily series of a unit
LongDays == 366   \* rows of the long daily series of a unit
MaxKeys == 2      \* units of the capacity CSV when the names are drawn
MaxReactors == 2  \* rows of the master CSV when its rows are drawn

\* 2025-01-15
AnchorDay == MonthStarts[25] + 14

File(rows) == [exists |-> TRUE, rows |-> rows]
Missing == [exists |-> FALSE, rows |-> << >>]

\* the rows of a CSV as the DataFrame read from it (ignore_index=True)
WithIndex(rows) ==
    [i \in 1..Len(rows) |->
        [Index |-> i, Unit |-> rows[i].Unit, Date |-> rows[i].Date,
         Power |-> rows[i].Power]]

MasterRow(name, subsequent, renewed, commercial) ==
    [name |-> name, subsequent_renewal |-> subsequent,
     license_renewed |-> renewed, commercial_operation |-> commercial]

N_Hatch1 == <<"H","a","t","c","h"," ","1">>
N_Hatch2 == <<"H","a","t","c","h"," ","2">>
N_EdwinHatch1 ==
    <<"E","d","w","i","n"," ","I","."," ","H","a","t","c","h"," ","N","u","c","l","e","a","r"," ","P","l","a","n","t",","," ","U","n","i","t"," ","1">>
N_EdwinHatch2 ==
    <<"E","d","w","i","n"," ","I","."," ","H","a","t","c","h"," ","N","u","c","l","e","a","r"," ","P","l","a","n","t",","," ","U","n","i","t"," ","2">>
N_DCCook1 == <<"D",".","C","."," ","C","o","o","k"," ","1">>
N_CookNuclear1 == <<"C","o","o","k"," ","N","u","c","l","e","a","r"," ","1">>
N_CookNuclear == <<"C","o","o","k"," ","N","u","c","l","e","a","r">>
N_Callaway1 == <<"C","a","l","l","a","w","a","y"," ","1">>
N_CallawayPlant == <<"C","a","l","l","a","w","a","y"," ","P","l","a","n","t">>
N_Columbia == <<"C","o","l","u","m","b","i","a">>
N_ColumbiaPlant == <<"C","o","l","u","m","b","i","a"," ","P","l","a","n","t">>
N_ArkansasNuclear1 == <<"A","r","k","a","n","s","a","s"," ","N","u","c","l","e","a","r"," ","1">>
N_DonaldCook1 ==
    <<"D","o","n","a","l","d"," ","C","."," ","C","o","o","k"," ","N","u","c","l","e","a","r"," ","P","l","a","n","t",","," ","U","n","i","t"," ","1">>
N_ColumbiaGS ==
    <<"C","o","l","u","m","b","i","a"," ","G","e","n","e","r","a","t","i","n","g"," ","S","t","a","t","i","o","n">>
N_ArkansasOne1 ==
    <<"A","r","k","a","n","s","a","s"," ","N","u","c","l","e","a","r"," ","O","n","e",","," ","U","n","i","t"," ","1">>
N_WattsBar2 ==
    <<"W","a","t","t","s"," ","B","a","r"," ","N","u","c","l","e","a","r"," ","P","l","a","n","t",","," ","U","n","i","t"," ","2">>
\* a name cell that holds a line break
N_ZionTwoLines == <<"Z","i","o","n"," ","P","l","a","n","t","\n","U","n","i","t"," ","1">>

\* ---- observation series of unit "Hatch 1", with or without "Hatch 2" ----
Offsets == <<0, 30, 31, 90, 91, 365, 366, 400>>
SparsePowers == <<NaN, 0, Pct(100), Pct(98)>>
NRowTypes == Len(Offsets) * Len(SparsePowers)

SparseRow(unit, k) ==
    [Unit |-> unit,
     Date |-> AnchorDay - Offsets[((k - 1) \div Len(SparsePowers)) + 1],
     Power |-> SparsePowers[((k - 1) % Len(SparsePowers)) + 1]]

\* a unit's rows given by their row types, another unit's row on AnchorDay
SparseRows(types, withB) ==
    WithIndex([i \in 1..Len(types) |-> SparseRow(N_Hatch1, types[i])]
              \o (IF withB
                  THEN <<[Unit |-> N_Hatch2, Date |-> AnchorDay,
                          Power |-> Pct(100)]>>
                  ELSE << >>))

DailyPowers == {NaN, Pct(-1), 0, 49, Pct(5), 499, Pct(50), 949, Pct(95)}

\* one row per day, the last on AnchorDay
DailyRows(powers) ==
    WithIndex([i \in 1..Len(powers) |->
                  [Unit |-> N_Hatch1, Date |-> AnchorDay - Len(powers) + i,
                   Power |-> powers[i]]])

SeriesRegistry ==
    File(<<MasterRow(N_EdwinHatch1, FALSE, TRUE, None),
           MasterRow(N_EdwinHatch2, FALSE, TRUE, None)>>)

InitSeries ==
    /\ Start
    /\ master_csv = SeriesRegistry
    /\ today = AnchorDay + 1
    /\ \/ \E n \in 1..MaxRows, withB \in BOOLEAN :
             \E types \in [1..n -> 1..NRowTypes] :
                /\ \A i \in 1..(n - 1) : types[i] <= types[i + 1]
                /\ capacity_csv = File(SparseRows(types, withB))
       \/ \E n \in 1..MaxDaily :
             \E powers \in [1..n -> DailyPowers] :
                capacity_csv = File(DailyRows(powers))
       \/ \E p \in {0, Pct(100)} :
             capacity_csv = File(DailyRows([i \in 1..LongDays |-> p]))

\* ---- names: every unit has one row, on AnchorDay ----
KeyPool ==
    <<N_DCCook1, N_CookNuclear1, N_CookNuclear, N_Callaway1, N_CallawayPlant,
      N_Columbia, N_ColumbiaPlant, N_ArkansasNuclear1, N_ColumbiaGS>>

NamesRegistry ==
    File(<<MasterRow(N_DonaldCook1, FALSE, TRUE, None),
           MasterRow(N_CallawayPlant, FALSE, TRUE, None),
           MasterRow(N_ColumbiaGS, FALSE, TRUE, None),
           MasterRow(N_ArkansasOne1, FALSE, TRUE, None),
           MasterRow(N_CookNuclear1, FALSE, FALSE, None),
           MasterRow(N_WattsBar2, FALSE, FALSE, None),
           MasterRow(N_ZionTwoLines, FALSE, FALSE, None)>>)

OneRowEach(keys) ==
    WithIndex([i \in 1..Len(keys) |->
                  [Unit |-> keys[i], Date |-> AnchorDay, Power |-> Pct(100)]])

InitNames ==
    /\ Start
    /\ master_csv = NamesRegistry
    /\ today = AnchorDay + 1
    /\ \E n \in 1..MaxKeys :
          \E ks \in [1..n -> 1..Len(KeyPool)] :
             /\ \A i, j \in 1..n : i # j => ks[i] # ks[j]
             /\ capacity_csv = File(OneRowEach([i \in 1..n |-> KeyPool[ks[i]]]))

\* ---- names that share records: two spellings of one alias target ----
N_HBRobinson2 ==
    <<"H",".","B","."," ","R","o","b","i","n","s","o","n"," ","S","t","e","a","m"," ","E","l","e","c","t","r","i","c"," ","P","l","a","n","t",","," ","U","n","i","t"," ","2">>
N_HBRobinson2Spaced ==
    <<"H","."," ","B","."," ","R","o","b","i","n","s","o","n"," ","S","t","e","a","m"," ","E","l","e","c","t","r","i","c"," ","P","l","a","n","t",","," ","U","n","i","t"," ","2">>
N_Robinson2 == <<"R","o","b","i","n","s","o","n"," ","2">>
N_RobinsonPlant2 == <<"R","o","b","i","n","s","o","n"," ","P","l","a","n","t"," ","2">>
N_Wattsville2 == <<"W","a","t","t","s","v","i","l","l","e"," ","2">>
N_Summer1 == <<"S","u","m","m","e","r"," ","1">>

SharedKeyPool ==
    <<N_Robinson2, N_RobinsonPlant2, N_Wattsville2, N_Summer1, N_Hatch1>>

SharedRegistry ==
    File(<<MasterRow(N_HBRobinson2, FALSE, TRUE, None),
           MasterRow(N_HBRobinson2Spaced, FALSE, TRUE, None),
           MasterRow(N_WattsBar2, FALSE, FALSE, None)>>)

InitShared ==
    /\ Start
    /\ master_csv = SharedRegistry
    /\ today = AnchorDay + 1
    /\ \E n \in 1..MaxKeys :
          \E ks \in [1..n -> 1..Len(SharedKeyPool)] :
             /\ \A i, j \in 1..n : i # j => ks[i] # ks[j]
             /\ capacity_csv =
                   File(OneRowEach([i \in 1..n |-> SharedKeyPool[ks[i]]]))

\* ---- a run of main on small files, present or not ----
MasterRowPool ==
    <<MasterRow(N_EdwinHatch1, TRUE, TRUE, AnchorDay - 50 * 365),
      MasterRow(N_EdwinHatch2, FALSE, TRUE, None),
      MasterRow(N_CallawayPlant, FALSE, FALSE, AnchorDay - 100),
      MasterRow(N_WattsBar2, FALSE, FALSE, AnchorDay - 9 * 365),
      MasterRow(N_ColumbiaGS, TRUE, FALSE, None)>>

\* two rows of "Hatch 1" of which the second has a cell that does not
\* parse, and a well-formed row of "Hatch 2"
MalformedFiles ==
    {File(WithIndex(<<[Unit |-> N_Hatch1, Date |-> AnchorDay,
                       Power |-> Pct(100)],
                      [Unit |-> N_Hatch1, Date |-> cells[1],
                       Power |-> cells[2]],
                      [Unit |-> N_Hatch2, Date |-> AnchorDay,
                       Power |-> Pct(100)]>>)) :
        cells \in {<<Malformed, Pct(100)>>, <<AnchorDay - 1, Malformed>>}}

SmallCapacityFiles ==
    {Missing, File(<< >>)}
    \cup {File(SparseRows(<<k>>, withB)) :
             k \in {2, 3, NRowTypes}, withB \in BOOLEAN}
    \cup MalformedFiles

Init ==
    /\ Start
    /\ today = AnchorDay + 1
    /\ \/ master_csv = Missing
       \/ \E n \in 0..MaxReactors :
             \E rs \in [1..n -> 1..Len(MasterRowPool)] :
                master_csv = File([i \in 1..n |-> MasterRowPool[rs[i]]])
    /\ capacity_csv \in SmallCapacityFiles

Spec == Init /\ [][Next]_vars

\* main on every observation series of InitSeries
SpecSeries == InitSeries /\ [][Next]_vars

\* main on every choice of unit names of InitNames
SpecNames == InitNames /\ [][Next]_vars

\* main on every choice of unit names of InitShared
SpecShared == InitShared /\ [][Next]_vars

(***************************************************************************)
(* Properties of process_capacity_factors, checked under SpecSeries.       *)
(***************************************************************************)

\* C1: for every unit, status is determined by current_power alone:
\* current_power >= 95 gives full_power, 50 <= current_power < 95 gives
\* reduced_power, 0 < current_power < 50 gives low_power, and an absent
\* (None or NaN), zero or negative current_power gives offline; 95 and 50
\* belong to the higher bucket.
C1_StatusThresholds ==
    \A k \in 1..Len(cf_metrics) :
        LET p == cf_metrics[k].value.current_power
            st == cf_metrics[k].value.status
        IN  /\ (IsNumber(p) /\ p >= Pct(95)) => st = "full_power"
            /\ (IsNumber(p) /\ Pct(50) <= p /\ p < Pct(95))
                   => st = "reduced_power"
            /\ (IsNumber(p) /\ 0 < p /\ p < Pct(50)) => st = "low_power"
            /\ (~IsNumber(p) \/ p <= 0) => st = "offline"

\* a unit whose current_power is exactly 95.0 and that is at full_power
C1_Witness ==
    \E k \in 1..Len(cf_metrics) :
        /\ cf_metrics[k].value.current_power = Pct(95)
        /\ cf_metrics[k].value.status = "full_power"

\* the row labels of a frame
Indexes(frame) == {frame[i].Index : i \in 1..Len(frame)}

\* C7: for every unit, the observations used for the 30-day capacity factor
\* are among those used for the 90-day figure, those among the ones used for
\* the 365-day figure, and those among the ones used for the lifetime figure
\* (the whole series); so the four counts do not decrease in that order.
C7_WindowsNested ==
    \A k \in 1..Len(unit_dfs) :
        LET unit_df == unit_dfs[k].value
            m == cf_metrics[k].value
            df_30 == Since(unit_df, m.data_as_of, 30)
            df_90 == Since(unit_df, m.data_as_of, 90)
            df_365 == Since(unit_df, m.data_as_of, 365)
        IN  /\ m.capacity_factor_30d = RoundedOrNone(MeanPower(df_30))
            /\ m.capacity_factor_90d = RoundedOrNone(MeanPower(df_90))
            /\ m.capacity_factor_365d = RoundedOrNone(MeanPower(df_365))
            /\ m.capacity_factor_lifetime = RoundedOrNone(MeanPower(unit_df))
            /\ Indexes(df_30) \subseteq Indexes(df_90)
            /\ Indexes(df_90) \subseteq Indexes(df_365)
            /\ Indexes(df_365) \subseteq Indexes(unit_df)
            /\ Len(df_30) <= Len(df_90)
            /\ Len(df_90) <= Len(df_365)
            /\ Len(df_365) <= Len(unit_df)

\* a unit whose 30-day, 90-day and 365-day windows hold ever more rows
C7_Witness ==
    \E k \in 1..Len(unit_dfs) :
        LET unit_df == unit_dfs[k].value
            max_date == cf_metrics[k].value.data_as_of
        IN  /\ 0 < Len(Since(unit_df, max_date, 30))
            /\ Len(Since(unit_df, max_date, 30))
                   < Len(Since(unit_df, max_date, 90))
            /\ Len(Since(unit_df, max_date, 90))
                   < Len(Since(unit_df, max_date, 365))

\* no row of the frame is dated on or after max_date - 365 days
NoRowInLastYear(unit_df, max_date) ==
    \A i \in 1..Len(unit_df) : unit_df[i].Date < max_date - 365

\* C9: a unit that has observations, none of them in the trailing 365-day
\* window (date >= anchor - 365 days), gets outages_last_year = 0,
\* outage_days_last_year = 0 and days_since_outage = 365, and the run does
\* not fail on it.
C9_NoObservationInLastYear ==
    \A k \in 1..Len(unit_dfs) :
        NoRowInLastYear(unit_dfs[k].value, cf_metrics[k].value.data_as_of)
            => /\ cf_metrics[k].value.outages_last_year = 0
               /\ cf_metrics[k].value.outage_days_last_year = 0
               /\ cf_metrics[k].value.days_since_outage = 365
               /\ pc # "error"

\* a unit whose only rows are older than the window, one of them an outage
\* day, with the three figures at 0, 0 and 365
C9_Witness ==
    \E k \in 1..Len(unit_dfs) :
        /\ NoRowInLastYear(unit_dfs[k].value, cf_metrics[k].value.data_as_of)
        /\ \E i \in 1..Len(unit_dfs[k].value) : unit_dfs[k].value[i].Power = 0
        /\ cf_metrics[k].value.outages_last_year = 0
        /\ cf_metrics[k].value.outage_days_last_year = 0
        /\ cf_metrics[k].value.days_since_outage = 365

\* rows a..b of the frame all have a power that is present and >= 95
AllHigh(unit_df, a, b) ==
    \A i \in a..b : unit_df[i].Power # NaN /\ unit_df[i].Power >= Pct(95)

\* C10: longest_run_days is the length of the longest run of consecutive
\* rows of the unit's whole date-sorted series whose power is >= 95 (a row
\* below 95 or without power ends a run): there is a run of that length,
\* there is none that is longer, and the value is 0 when no row qualifies.
C10_LongestRun ==
    \A k \in 1..Len(unit_dfs) :
        LET unit_df == unit_dfs[k].value
            n == Len(unit_df)
            run == cf_metrics[k].value.longest_run_days
        IN  /\ run \in 0..n
            /\ \E a \in 1..(n - run + 1) : AllHigh(unit_df, a, a + run - 1)
            /\ ~ \E a \in 1..(n - run) : AllHigh(unit_df, a, a + run)

\* the series high, high, low: a run of 2 that the last row ends
C10_Witness ==
    \E k \in 1..Len(unit_dfs) :
        LET unit_df == unit_dfs[k].value
        IN  /\ Len(unit_df) = 3
            /\ AllHigh(unit_df, 1, 2)
            /\ unit_df[3].Power = 499
            /\ cf_metrics[k].value.longest_run_days = 2

\* C5: outage_days_last_year <= 365 for every unit and every observation
\* series given to process_capacity_factors.
C5_OutageDaysAtMost365 ==
    \A k \in 1..Len(cf_metrics) :
        cf_metrics[k].value.outage_days_last_year <= 365

\* the rows of the DataFrame that belong to the unit and bear the date
RowsOn(df, unit_name, date) ==
    {i \in 1..Len(df) : df[i].Unit = unit_name /\ df[i].Date = date}

\* C11: all records of one run share one anchor: data_as_of of every unit is
\* the latest date over the observations of all units; the metrics map has
\* exactly one record per distinct unit name of the observations; and a
\* unit's current_power is the power of a row of it dated on the anchor
\* date, or absent when it has no row on that date.
C11_OneAnchor ==
    cf_metrics # << >> =>
        LET df == capacity_csv.rows
        IN  /\ \A k \in 1..Len(cf_metrics) :
                  /\ \E i \in 1..Len(df) :
                        df[i].Date = cf_metrics[k].value.data_as_of
                  /\ \A i \in 1..Len(df) :
                        df[i].Date <= cf_metrics[k].value.data_as_of
            /\ {cf_metrics[k].key : k \in 1..Len(cf_metrics)}
                   = {df[i].Unit : i \in 1..Len(df)}
            /\ \A j, k \in 1..Len(cf_metrics) :
                  cf_metrics[j].key = cf_metrics[k].key => j = k
            /\ \A k \in 1..Len(cf_metrics) :
                  LET on == RowsOn(df, cf_metrics[k].key,
                                   cf_metrics[k].value.data_as_of)
                  IN  IF on = {}
                      THEN cf_metrics[k].value.current_power = None
                      ELSE \E i \in on :
                              cf_metrics[k].value.current_power = df[i].Power

\* two units, one with a row on the anchor date and one whose rows are all
\* earlier and whose current_power is absent
C11_Witness ==
    \E j, k \in 1..Len(cf_metrics) :
        /\ cf_metrics[j].value.current_power = Pct(100)
        /\ cf_metrics[k].value.current_power = None
        /\ \E i \in 1..Len(capacity_csv.rows) :
              capacity_csv.rows[i].Unit = cf_metrics[k].key

Abs(x) == IF x < 0 THEN -x ELSE x

\* cf is the mean, to one decimal, of the powers that are present among the
\* rows of unit_df dated on or after lower, and is absent when there is none
IsWindowMean(unit_df, lower, cf) ==
    LET used == {i \in 1..Len(unit_df) :
                    unit_df[i].Date >= lower /\ unit_df[i].Power # NaN}
        total == Sum(Eager([i \in 1..Len(unit_df) |->
                     IF i \in used THEN unit_df[i].Power ELSE 0]))
    IN  IF used = {}
        THEN cf = None
        ELSE /\ cf # None
             /\ 2 * Abs(cf * Cardinality(used) - total) <= Cardinality(used)

\* C12: for W in {30, 90, 365} the capacity factor of a unit is the mean (to
\* one decimal) of the powers that are present over all its rows with
\* date >= anchor - W days, the bound included and rows of equal date each
\* counted; the lifetime figure is the mean over all its rows; a figure is
\* absent, not zero, exactly when no power is present in its window.
C12_WindowMeans ==
    \A k \in 1..Len(unit_dfs) :
        LET unit_df == unit_dfs[k].value
            m == cf_metrics[k].value
            first == Min({unit_df[i].Date : i \in 1..Len(unit_df)})
        IN  /\ IsWindowMean(unit_df, m.data_as_of - 30, m.capacity_factor_30d)
            /\ IsWindowMean(unit_df, m.data_as_of - 90, m.capacity_factor_90d)
            /\ IsWindowMean(unit_df, m.data_as_of - 365,
                            m.capacity_factor_365d)
            /\ IsWindowMean(unit_df, first, m.capacity_factor_lifetime)

\* a unit with two rows on one date, powers 0 and 100, both counted: 50.0
C12_Witness ==
    \E k \in 1..Len(unit_dfs) :
        LET unit_df == unit_dfs[k].value
        IN  /\ Len(unit_df) = 2
            /\ unit_df[1].Date = unit_df[2].Date
            /\ {unit_df[1].Power, unit_df[2].Power} = {0, Pct(100)}
            /\ cf_metrics[k].value.capacity_factor_30d = Pct(50)

\* C20: within the trailing 365-day window of a unit (its rows with
\* date >= anchor - 365 days, in date-sorted order) a row is in outage iff
\* its power is present and < 5, and outages_last_year is the number of
\* in-outage rows whose preceding row in the window is not in outage; the
\* first row of the window counts whenever it is in outage, even if the row
\* before it, outside the window, is in outage too.
C20_OutageStarts ==
    \A k \in 1..Len(unit_dfs) :
        LET unit_df == unit_dfs[k].value
            m == cf_metrics[k].value
            window == {i \in 1..Len(unit_df) :
                          unit_df[i].Date >= m.data_as_of - 365}
            outage == {i \in window :
                          unit_df[i].Power # NaN /\ unit_df[i].Power < Pct(5)}
        IN  /\ m.outage_days_last_year = Cardinality(outage)
            /\ m.outages_last_year
                   = Cardinality({i \in outage :
                                     ~(i - 1 \in window /\ i - 1 \in outage)})

\* an outage that began the day before the window opens and goes on in its
\* first row: one start
C20_Witness ==
    \E k \in 1..Len(unit_dfs) :
        LET unit_df == unit_dfs[k].value
            max_date == cf_metrics[k].value.data_as_of
        IN  /\ Len(unit_df) = 2
            /\ unit_df[1].Date = max_date - 366 /\ unit_df[1].Power = 0
            /\ unit_df[2].Date = max_date - 365 /\ unit_df[2].Power = 0
            /\ cf_metrics[k].value.outages_last_year = 1

(***************************************************************************)
(* Properties of merge_data, checked under SpecNames.  The four tiers are  *)
(* stated here on their own: Tier(t, name, K) says that tier t, were it    *)
(* consulted for the registry name, would select the metrics key K.        *)
(***************************************************************************)
PostMerge == pc \in {"calculate_fleet_statistics", "save", "done"}

KeySet == {cf_metrics[i].key : i \in 1..Len(cf_metrics)}

\* the form the reconciler compares in its normalized tier
NormLower(x) == Lower(normalize_name_for_matching(x))

Tier(t, name, K) ==
    CASE t = 1 -> /\ K \in KeySet
                  /\ \E a \in 1..Len(name_mapping) :
                        name_mapping[a] = [key |-> name, value |-> K]
      [] t = 2 -> K \in KeySet /\ K = name
      [] t = 3 -> \E i \in 1..Len(cf_metrics) :
                     /\ cf_metrics[i].key = K
                     /\ NormLower(K) = NormLower(name)
                     /\ \A j \in (i + 1)..Len(cf_metrics) :
                           NormLower(cf_metrics[j].key) # NormLower(name)
      [] t = 4 -> \E i \in 1..Len(cf_metrics) :
                     /\ cf_metrics[i].key = K
                     /\ PartialMatch(name, K)
                     /\ \A j \in 1..(i - 1) :
                           ~PartialMatch(name, cf_metrics[j].key)

TierMatches(t, name) == \E K \in KeySet : Tier(t, name, K)

\* C2: alias precedence: when a registry entry's name is in the alias table
\* with mapped key K1 and K1 is a key of the metrics map, the entry's
\* performance is the record of K1, whatever other key would satisfy the
\* exact, normalized or heuristic tier for that name.
C2_AliasPrecedence ==
    PostMerge =>
        \A i \in 1..Len(reactors) : \A K1 \in KeySet :
            Tier(1, reactors[i].name, K1) => reactors[i].performance = Ref(K1)

\* an entry resolved through the alias table to K1 while another key K2 of
\* the metrics map satisfies the exact, normalized or heuristic tier
C2_Witness ==
    /\ PostMerge
    /\ \E i \in 1..Len(reactors) : \E K1, K2 \in KeySet :
          /\ K1 # K2
          /\ Tier(1, reactors[i].name, K1)
          /\ \/ K2 = reactors[i].name
             \/ NormLower(K2) = NormLower(reactors[i].name)
             \/ PartialMatch(reactors[i].name, K2)
          /\ reactors[i].performance = Ref(K1)

\* C3: the tiers are tried in the order alias table (which succeeds only
\* when the mapped key is in the metrics map), exact name, normalized name,
\* heuristic partial match, and the record attached to an entry is the one
\* the first tier that succeeds selects; a later tier has no say.
C3_FirstTierWins ==
    PostMerge =>
        \A i \in 1..Len(reactors) : \A t \in 1..4 : \A K \in KeySet :
            (/\ Tier(t, reactors[i].name, K)
             /\ \A u \in 1..(t - 1) : ~TierMatches(u, reactors[i].name))
                => reactors[i].performance = Ref(K)

\* an entry not in the alias table whose exact tier selects K while the
\* normalized tier would select another key, and that carries K's record
C3_Witness ==
    /\ PostMerge
    /\ \E i \in 1..Len(reactors) : \E K, K2 \in KeySet :
          /\ K # K2
          /\ ~TierMatches(1, reactors[i].name)
          /\ Tier(2, reactors[i].name, K)
          /\ Tier(3, reactors[i].name, K2)
          /\ reactors[i].performance = Ref(K)

\* C8: after merge_data every entry's performance is one record of the
\* metrics map or null, and it is null exactly when no tier matches; each
\* such entry counts in unmatched, matched + unmatched is the number of
\* entries, the list keeps its length and order, and the run does not fail.
C8_PerformanceOrNull ==
    PostMerge =>
        /\ Len(reactors) = Len(master_csv.rows)
        /\ \A i \in 1..Len(reactors) :
              /\ reactors[i].name = master_csv.rows[i].name
              /\ \/ reactors[i].performance = NoneObj
                 \/ \E K \in KeySet : reactors[i].performance = Ref(K)
              /\ reactors[i].performance = NoneObj
                    <=> \A t \in 1..4 : ~TierMatches(t, reactors[i].name)
        /\ unmatched = Cardinality({i \in 1..Len(reactors) :
                                       reactors[i].performance = NoneObj})
        /\ matched + unmatched = Len(reactors)
        /\ pc # "error"

\* a registry of which some entries found a record and some did not
C8_Witness ==
    /\ PostMerge
    /\ matched > 0
    /\ unmatched > 0
    /\ \E i \in 1..Len(reactors) :
          /\ reactors[i].performance = NoneObj
          /\ \A t \in 1..4 : ~TierMatches(t, reactors[i].name)

\* C6: normalization is idempotent on every name it is given, registry name
\* or metrics key: normalizing a normalized name changes nothing, and the
\* same holds for the lower-cased form the reconciler compares.
C6_NormalizeIdempotent ==
    \A x \in {reactors[i].name : i \in 1..Len(reactors)} \cup KeySet :
        /\ normalize_name_for_matching(normalize_name_for_matching(x))
               = normalize_name_for_matching(x)
        /\ NormLower(NormLower(x)) = NormLower(x)

(***************************************************************************)
(* Properties of calculate_fleet_statistics, checked under SpecSeries.     *)
(***************************************************************************)

\* the 90-day capacity factors that are present, 0.0 included
PresentCf90 ==
    LET with == SelectSeq(cf_metrics,
                    LAMBDA e : e.value.capacity_factor_90d # None)
    IN  [i \in 1..Len(with) |-> with[i].value.capacity_factor_90d]

\* C4: the fleet capacity factor is the unweighted mean (to one decimal) of
\* the 90-day capacity factor over exactly the units that have one, whatever
\* its value; it is 0 when no unit has one, and the run does not fail.
C4_FleetCfMeanOfPresent ==
    pc \in {"save", "done"} =>
        fleet_stats.fleet_capacity_factor =
            IF Len(PresentCf90) > 0
            THEN RoundDiv(Sum(PresentCf90), Len(PresentCf90))
            ELSE 0

(***************************************************************************)
(* Properties of main, checked under Spec.                                 *)
(***************************************************************************)

\* the rows of the capacity CSV with a cell that does not parse
MalformedRows ==
    {i \in 1..Len(capacity_csv.rows) :
        \/ capacity_csv.rows[i].Date = Malformed
        \/ capacity_csv.rows[i].Power = Malformed}

\* C13: when a single observation row has a malformed date or a malformed
\* power, only that row is dropped: the run does not abort, and every unit
\* with a well-formed row gets its metrics.
C13_MalformedRowDropped ==
    (/\ master_csv.exists
     /\ capacity_csv.exists
     /\ Cardinality(MalformedRows) = 1
     /\ Len(capacity_csv.rows) > 1)
        => /\ pc # "error"
           /\ pc \notin {"load_reactors_master", "process_capacity_factors"}
                 => \A i \in 1..Len(capacity_csv.rows) :
                       i \notin MalformedRows
                           => HasKey(cf_metrics, capacity_csv.rows[i].Unit)

\* a dataset is absent (no file) or empty (no record)
InputAbsentOrEmpty ==
    \/ ~master_csv.exists
    \/ Len(master_csv.rows) = 0
    \/ ~capacity_csv.exists
    \/ Len(capacity_csv.rows) = 0

\* C14: if the registry dataset or the observation dataset is absent or
\* empty, the run aborts before any reconciliation, aggregation or output is
\* produced; and nothing else halts the run.
C14_OnlyMissingInputHalts ==
    /\ InputAbsentOrEmpty
           => /\ pc \notin {"calculate_fleet_statistics", "save", "done"}
              /\ outputs = NoneObj
    /\ pc = "error" => InputAbsentOrEmpty

\* the ages that are known, 0 included
KnownAges ==
    LET with == SelectSeq(reactors, LAMBDA r : r.current_age # None)
    IN  [i \in 1..Len(with) |-> with[i].current_age]

\* C15: the average unit age is the mean (to one decimal) of current_age
\* over exactly the registry entries whose age is known, whatever its value;
\* entries without an age are left out, and with no known age the average
\* is 0.
C15_AverageOfKnownAges ==
    pc \in {"save", "done"} =>
        fleet_stats.average_age =
            IF Len(KnownAges) > 0
            THEN RoundDiv(10 * Sum(KnownAges), Len(KnownAges))
            ELSE 0

\* C18: reconciliation and aggregation leave the computed data unchanged:
\* merge_data changes a registry entry only by giving it the performance
\* field, keeps the list's entries in place, and changes neither the metrics
\* map nor a metrics record; calculate_fleet_statistics changes neither the
\* registry entries nor the metrics map.
C18_ComputedDataUnchanged ==
    [][/\ (pc = "merge_data" /\ pc' # pc)
              => /\ cf_metrics' = cf_metrics
                 /\ Len(reactors') = Len(reactors)
                 /\ \A i \in 1..Len(reactors) :
                       /\ DOMAIN reactors'[i]
                              = DOMAIN reactors[i] \cup {"performance"}
                       /\ \A f \in DOMAIN reactors[i] :
                             reactors'[i][f] = reactors[i][f]
       /\ (pc = "calculate_fleet_statistics" /\ pc' # pc)
              => /\ reactors' = reactors
                 /\ cf_metrics' = cf_metrics]_vars

\* both calls made, on an entry of known age that carries a record
C18_Witness ==
    /\ pc = "save"
    /\ \E i \in 1..Len(reactors) :
          /\ reactors[i].current_age = 50
          /\ reactors[i].performance = Ref(N_Hatch1)
          /\ HasKey(cf_metrics, N_Hatch1)

\* C19: every registry entry has one license status with its paired years,
\* by precedence: a subsequent-renewal date gives subsequent_renewal/80,
\* otherwise a renewal date gives first_renewal/60, otherwise original/40;
\* so the three license-status counts of the fleet statistics add up to
\* total_reactors.
C19_LicensePrecedence ==
    /\ \A i \in 1..Len(reactors) :
          LET row == master_csv.rows[i]
              pair == <<reactors[i].license_status, reactors[i].license_years>>
          IN  /\ reactors[i].name = row.name
              /\ row.subsequent_renewal => pair = <<"subsequent_renewal", 80>>
              /\ (~row.subsequent_renewal /\ row.license_renewed)
                     => pair = <<"first_renewal", 60>>
              /\ (~row.subsequent_renewal /\ ~row.license_renewed)
                     => pair = <<"original", 40>>
    /\ pc \in {"save", "done"}
           => /\ fleet_stats.total_reactors = Len(reactors)
              /\ fleet_stats.license_status.original
                     + fleet_stats.license_status.first_renewal
                     + fleet_stats.license_status.subsequent_renewal
                     = fleet_stats.total_reactors

\* a registry with an entry that has both renewal dates and counts as a
\* subsequent renewal, and an entry with neither, after aggregation
C19_Witness ==
    /\ pc = "save"
    /\ \E i, j \in 1..Len(reactors) :
          /\ master_csv.rows[i].subsequent_renewal
          /\ master_csv.rows[i].license_renewed
          /\ reactors[i].license_status = "subsequent_renewal"
          /\ reactors[j].license_status = "original"
    /\ fleet_stats.license_status.subsequent_renewal = 1
    /\ fleet_stats.license_status.original = 1

(***************************************************************************)
(* Further properties of merge_data and calculate_fleet_statistics,        *)
(* checked under SpecNames.                                                *)
(***************************************************************************)

\* what the heuristic tier attaches to name when it scans the keys in the
\* order given
HeuristicChoice(name, keys) ==
    LET partial == {i \in 1..Len(keys) : PartialMatch(name, keys[i])}
    IN  IF partial = {} THEN NoneObj ELSE Ref(keys[Min(partial)])

\* the orders in which n keys can be inserted
InsertionOrders(n) ==
    {p \in [1..n -> 1..n] : \A a, b \in 1..n : a # b => p[a] # p[b]}

\* C16: heuristic matching is reproducible: for a registry entry that the
\* heuristic tier decides, and the set of metrics keys of the run, the key
\* attached is the same for every insertion order of the metrics map.
C16_HeuristicOrderIndependent ==
    PostMerge =>
        \A i \in 1..Len(reactors) :
            (\A t \in 1..3 : ~TierMatches(t, reactors[i].name))
                => \A p \in InsertionOrders(Len(cf_metrics)) :
                      HeuristicChoice(reactors[i].name,
                          [j \in 1..Len(cf_metrics) |-> cf_metrics[p[j]].key])
                          = reactors[i].performance

\* the metrics records that some registry entry carries
Attached ==
    SelectSeq(cf_metrics,
        LAMBDA e : \E i \in 1..Len(reactors) :
                      reactors[i].performance = Ref(e.key))

\* C17: the fleet statistics depend on the reconciled registry entries
\* alone: fleet_capacity_factor and status_counts are what they would be if
\* the metrics map held only the records attached to registry entries, so a
\* record attached to no entry contributes to neither.
C17_FleetFromReconciledOnly ==
    pc \in {"save", "done"} =>
        /\ fleet_stats.fleet_capacity_factor = FleetCf(Attached)
        /\ fleet_stats.status_counts = StatusCounts(Attached)

(***************************************************************************)
(* Further properties of process_capacity_factors, checked under           *)
(* SpecSeries.                                                             *)
(***************************************************************************)

\* the dates of the unit's in-outage rows (power present and < 5) within
\* the trailing 365-day window
OutageDates(unit_df, max_date) ==
    {unit_df[i].Date : i \in {j \in 1..Len(unit_df) :
                                 /\ unit_df[j].Date >= max_date - 365
                                 /\ unit_df[j].Power # NaN
                                 /\ unit_df[j].Power < Pct(5)}}

\* C21: days_since_outage is the number of days from the most recent
\* in-outage date of the trailing 365-day window to the anchor date, and the
\* sentinel 365 when the window holds no in-outage row; it always lies
\* between 0 and 365.
C21_DaysSinceOutage ==
    \A k \in 1..Len(unit_dfs) :
        LET m == cf_metrics[k].value
            dates == OutageDates(unit_dfs[k].value, m.data_as_of)
        IN  /\ dates = {} => m.days_since_outage = 365
            /\ dates # {}
                  => /\ m.data_as_of - m.days_since_outage \in dates
                     /\ \A d \in dates : d <= m.data_as_of - m.days_since_outage
            /\ m.days_since_outage \in 0..365

\* a unit with outage rows on two dates of the window, the later of them
\* before the anchor date
C21_Witness ==
    \E k \in 1..Len(unit_dfs) :
        LET m == cf_metrics[k].value
            dates == OutageDates(unit_dfs[k].value, m.data_as_of)
        IN  /\ Cardinality(dates) = 2
            /\ m.days_since_outage > 0
            /\ m.days_since_outage < 365
            /\ m.data_as_of - m.days_since_outage \in dates

\* the rows of the prior window: anchor - 180 days <= date < anchor - 90
PriorRows(unit_df, max_date) ==
    {i \in 1..Len(unit_df) :
        unit_df[i].Date >= max_date - 180 /\ unit_df[i].Date < max_date - 90}

\* the sum of the powers that are present among the rows S of the frame
PowerTotal(unit_df, S) ==
    Sum(Eager([i \in 1..Len(unit_df) |->
            IF i \in S /\ unit_df[i].Power # NaN
            THEN unit_df[i].Power ELSE 0]))

\* the number of those powers
PowerCount(unit_df, S) == Cardinality({i \in S : unit_df[i].Power # NaN})

\* C22: trend is 'up' iff the 90-day capacity factor exceeds the mean power
\* of the rows of the prior window by more than 2, 'down' iff it is lower
\* than that mean by more than 2, and 'stable' otherwise: when the 90-day
\* figure is absent, when the prior window has no row (or no power), and
\* when the difference is exactly 2.  No row is in both windows.
C22_Trend ==
    \A k \in 1..Len(unit_dfs) :
        LET unit_df == unit_dfs[k].value
            m == cf_metrics[k].value
            prior == PriorRows(unit_df, m.data_as_of)
            n == PowerCount(unit_df, prior)
            total == PowerTotal(unit_df, prior)
            cf_90 == m.capacity_factor_90d
            known == cf_90 # None /\ n > 0
        IN  /\ m.trend \in {"up", "down", "stable"}
            /\ m.trend = "up"
                   <=> (known /\ cf_90 * n > total + Pct(2) * n)
            /\ m.trend = "down"
                   <=> (known /\ cf_90 * n < total - Pct(2) * n)
            /\ \A i \in prior : unit_df[i].Date < m.data_as_of - 90

\* a 90-day figure of 100.0 against a prior mean of 98.0: exactly 2, stable
C22_Witness ==
    \E k \in 1..Len(unit_dfs) :
        LET unit_df == unit_dfs[k].value
            m == cf_metrics[k].value
            prior == PriorRows(unit_df, m.data_as_of)
        IN  /\ PowerCount(unit_df, prior) = 1
            /\ PowerTotal(unit_df, prior) = Pct(98)
            /\ m.capacity_factor_90d = Pct(100)
            /\ m.trend = "stable"

\* the rows of the trailing 365-day window whose power is present
PresentInLastYear(unit_df, max_date) ==
    {i \in 1..Len(unit_df) :
        unit_df[i].Date >= max_date - 365 /\ unit_df[i].Power # NaN}

\* C23: monthly_cf lists, oldest month first, one mean power (to one
\* decimal) per calendar month that has a power present among the unit's
\* rows of the trailing 365-day window; a month without data has no entry.
C23_MonthlyCf ==
    \A k \in 1..Len(unit_dfs) :
        LET unit_df == unit_dfs[k].value
            m == cf_metrics[k].value
            present == PresentInLastYear(unit_df, m.data_as_of)
            months == Ascending({MonthOf(unit_df[i].Date) : i \in present})
        IN  /\ Len(m.monthly_cf) = Len(months)
            /\ \A j \in 1..Len(months) :
                  LET S == {i \in present :
                               MonthOf(unit_df[i].Date) = months[j]}
                  IN  2 * Abs(m.monthly_cf[j] * Cardinality(S)
                              - PowerTotal(unit_df, S)) <= Cardinality(S)

\* rows in two months with empty months between them: two entries, the
\* older month's 100.0 before the newer month's 0.0
C23_Witness ==
    \E k \in 1..Len(unit_dfs) :
        LET unit_df == unit_dfs[k].value
        IN  /\ Len(unit_df) = 2
            /\ MonthOf(unit_df[1].Date) + 1 < MonthOf(unit_df[2].Date)
            /\ unit_df[1].Power = Pct(100)
            /\ unit_df[2].Power = 0
            /\ cf_metrics[k].value.monthly_cf = <<Pct(100), 0>>

\* C24: monthly_cf holds the monthly averages of the last 12 months: it has
\* at most 12 entries, for every unit and every observation series.
C24_AtMost12Months ==
    \A k \in 1..Len(cf_metrics) : Len(cf_metrics[k].value.monthly_cf) <= 12

(***************************************************************************)
(* Properties of merge_data on names that can share a record, checked      *)
(* under SpecShared.                                                       *)
(***************************************************************************)

\* a word of more than 4 characters that both base names have
SharedLongWord(words, cf_words) ==
    \E a \in 1..Len(words), b \in 1..Len(cf_words) :
        Len(words[a]) > 4 /\ words[a] = cf_words[b]

\* the condition of the heuristic tier as C25 words it
SharesBaseAndUnit(name, K) ==
    /\ \/ StrIn(Lower(get_plant_base_name(name)), Lower(get_plant_base_name(K)))
       \/ StrIn(Lower(get_plant_base_name(K)), Lower(get_plant_base_name(name)))
       \/ SharedLongWord(Split(Lower(get_plant_base_name(name)), 1),
                         Split(Lower(get_plant_base_name(K)), 1))
    /\ UnitNumber(name) = UnitNumber(K)

\* C25: the heuristic tier attaches the record of a key K to a registry
\* entry only if one base name contains the other or the two base names
\* share a word of more than 4 characters, and the trailing unit numbers
\* are equal or both absent; it reports the entry unmatched only if no key
\* satisfies that condition.
C25_HeuristicCondition ==
    PostMerge =>
        \A i \in 1..Len(reactors) :
            (\A t \in 1..3 : ~TierMatches(t, reactors[i].name))
                => /\ \A K \in KeySet :
                         reactors[i].performance = Ref(K)
                             => SharesBaseAndUnit(reactors[i].name, K)
                   /\ reactors[i].performance = NoneObj
                         => \A K \in KeySet :
                               ~SharesBaseAndUnit(reactors[i].name, K)

(***************************************************************************)
(* Independence of the units in process_capacity_factors, checked under    *)
(* SpecSeries.                                                             *)
(***************************************************************************)

\* the metrics map as the set of its items
Items(d) == {d[i] : i \in 1..Len(d)}

StageRank(p) ==
    CASE p = "load_reactors_master" -> 1
      [] p = "process_capacity_factors" -> 2
      [] p = "merge_data" -> 3
      [] p = "calculate_fleet_statistics" -> 4
      [] p = "save" -> 5
      [] p = "done" -> 6
      [] p = "error" -> 7

\* every unit named in the capacity CSV has its record
MetricsComplete ==
    \A i \in 1..Len(capacity_csv.rows) :
        \E k \in 1..Len(cf_metrics) :
            cf_metrics[k].key = capacity_csv.rows[i].Unit

\* every row of the registry has its entry, with the performance field
ReconciliationComplete ==
    /\ Len(reactors) = Len(master_csv.rows)
    /\ \A i \in 1..Len(reactors) : "performance" \in DOMAIN reactors[i]

\* C27: merge_data starts only when every unit has its metrics record,
\* calculate_fleet_statistics only when every registry entry has its
\* performance field, and the outputs are written only when the three are
\* done; a stage never runs again and never changes what an earlier stage
\* produced.
C27_StageOrder ==
    /\ [](/\ pc \in {"merge_data", "calculate_fleet_statistics", "save", "done"}
              => MetricsComplete
          /\ pc \in {"calculate_fleet_statistics", "save", "done"}
              => MetricsComplete /\ ReconciliationComplete
          /\ fleet_stats # NoneObj => pc \in {"save", "done"}
          /\ outputs # NoneObj
              => /\ pc = "done"
                 /\ outputs = [reactors_json |-> reactors,
                               capacity_factors_json |-> cf_metrics,
                               fleet_stats_json |-> fleet_stats]
                 /\ fleet_stats # NoneObj)
    /\ [][/\ StageRank(pc') > StageRank(pc)
          /\ StageRank(pc) >= 3 => cf_metrics' = cf_metrics
          /\ StageRank(pc) >= 4 => reactors' = reactors
          /\ StageRank(pc) >= 5 => fleet_stats' = fleet_stats]_vars

\* a run that went through every stage, with entries and records
C27_Witness ==
    /\ pc = "done"
    /\ outputs # NoneObj
    /\ Len(reactors) > 0
    /\ Len(cf_metrics) > 0
    /\ \E i \in 1..Len(reactors) : reactors[i].performance # NoneObj

(***************************************************************************)
(* The two outage counts of a record, checked under SpecSeries.            *)
(***************************************************************************)

\* C28: a unit has no more outage starts than outage days in its trailing
\* window, and it has no outage start exactly when it has no outage day.
C28_StartsWithinDays ==
    \A k \in 1..Len(cf_metrics) :
        LET m == cf_metrics[k].value
        IN  /\ m.outages_last_year <= m.outage_days_last_year
            /\ m.outages_last_year = 0 <=> m.outage_days_last_year = 0
            /\ m.outages_last_year >= 0

\* an outage of two days counted once, its first row the first of the window
C28_Witness ==
    \E k \in 1..Len(cf_metrics) :
        /\ cf_metrics[k].value.outages_last_year = 1
        /\ cf_metrics[k].value.outage_days_last_year = 2
        /\ Len(unit_dfs[k].value) = 2

\* the registry entries that carry the record of the key K
Carriers(K) == {i \in 1..Len(reactors) : reactors[i].performance = Ref(K)}

\* C29: reconciliation is not one-to-one: every registry entry gets the
\* performance it would get if it were the only entry of the registry, so
\* that one record can be attached to two entries (two alias names of one
\* key, or two names the heuristic tier leads to one key) while another key
\* is attached to none.
C29_NotOneToOne ==
    PostMerge =>
        /\ \A i \in 1..Len(reactors) :
              reactors[i].performance
                  = MergeAll(<<reactors[i]>>, cf_metrics)[1].performance
        /\ \A K \in KeySet :
              Carriers(K) = {i \in 1..Len(reactors) :
                                \E t \in 1..4 :
                                   /\ Tier(t, reactors[i].name, K)
                                   /\ \A u \in 1..(t - 1) :
                                         ~TierMatches(u, reactors[i].name)}

\* the record of "Robinson 2" on both spellings of its alias name, and a
\* second key that no entry carries
C29_Witness ==
    /\ PostMerge
    /\ reactors[1].name = N_HBRobinson2
    /\ reactors[2].name = N_HBRobinson2Spaced
    /\ reactors[1].performance = Ref(N_Robinson2)
    /\ reactors[2].performance = Ref(N_Robinson2)
    /\ TierMatches(1, reactors[1].name)
    /\ TierMatches(1, reactors[2].name)
    /\ \E K \in KeySet : Carriers(K) = {}

(***************************************************************************)
(* The normalized tier of merge_data, checked under SpecNames.             *)
(***************************************************************************)

\* the positions in the metrics map of the keys whose normalized,
\* lower-cased form is that of name
SameNormalized(name) ==
    {j \in 1..Len(cf_metrics) : NormLower(cf_metrics[j].key) = NormLower(name)}

\* the registry entries that reach the normalized tier and find a key there
DecidedByNormalized ==
    {i \in 1..Len(reactors) :
        /\ ~(/\ HasKey(name_mapping, reactors[i].name)
             /\ DictGet(name_mapping, reactors[i].name) \in KeySet)
        /\ reactors[i].name \notin KeySet
        /\ SameNormalized(reactors[i].name) # {}}

\* C30: the key the normalized tier attaches has the normalized,
\* lower-cased form of the entry's name, and of several keys with that form
\* it is the one latest in the iteration order of the metrics map.
C30_NormalizedLastKey ==
    PostMerge =>
        \A i \in DecidedByNormalized :
            \E j \in SameNormalized(reactors[i].name) :
                /\ reactors[i].performance = Ref(cf_metrics[j].key)
                /\ NormLower(cf_metrics[j].key) = NormLower(reactors[i].name)
                /\ \A h \in SameNormalized(reactors[i].name) : h <= j

\* "Columbia" and then "Columbia Plant" in the metrics map, and the entry
\* "Columbia Generating Station" with the record of the second
C30_Witness ==
    /\ PostMerge
    /\ Len(cf_metrics) = 2
    /\ cf_metrics[1].key = N_Columbia
    /\ cf_metrics[2].key = N_ColumbiaPlant
    /\ \E i \in DecidedByNormalized :
          /\ reactors[i].name = N_ColumbiaGS
          /\ SameNormalized(reactors[i].name) = {1, 2}
          /\ reactors[i].performance = Ref(N_ColumbiaPlant)

====
